---- MODULE Spec2Model ----
(***************************************************************************)
(* A model of package transact (src/transact.go): DoContext and Do run a   *)
(* caller-supplied txFunc inside a database/sql transaction and commit or  *)
(* roll back from a deferred closure.                                      *)
(*                                                                         *)
(* Each element of Calls is one goroutine making one call of Do or         *)
(* DoContext against the same *sql.DB. The database, the transaction       *)
(* handles and the context are the environment: what they answer is part   *)
(* of the input of a call.                                                 *)
(***************************************************************************)
EXTENDS Naturals, Sequences, FiniteSets

\* Number of goroutines that call the helper against the one database handle.
NumCalls == 2

Calls == 1..NumCalls

\* Transaction handles: every call begins at most one.
Handles == 1..NumCalls

\* Go's nil (nil error, nil interface value, recover() outside a panic).
Nil == "nil"

\* No transaction handle (tx before BeginTx has succeeded).
NoTx == 0

\* The context Do passes (src/transact.go:39).
Background == "Background"

\* Contexts a caller can pass: context.Background(), a context.WithCancel
\* context that is still live, and one that is already cancelled.
Contexts == {Background, "Live", "Canceled"}

\* Whether ctx.Done() is closed.
CtxDone(c) == c = "Canceled"

\* A unit of work: what it does to the handle it is given before it leaves
\* (op), how it leaves (kind) and with which value (val): the error it
\* returns or the value it panics with. Goexit is runtime.Goexit().
TxFunc(op, kind, val) == [op |-> op, kind |-> kind, val |-> val]

\* The calls of txFunc that do not exist yet.
NoFn == TxFunc("none", "none", Nil)

\* What the driver answers to one call: to begin, to commit, to roll back.
DbScript(b, c, r) == [begin |-> b, commit |-> c, rollback |-> r]

NoScript == DbScript(Nil, Nil, Nil)

AllTxFuncs ==
    { TxFunc(op, "return", v) : op \in {"none", "Commit", "Rollback"}, v \in {Nil, "F1", "F2"} }
    \cup { TxFunc(op, "panic", v) : op \in {"none", "Commit", "Rollback"}, v \in {Nil, "F1", "V1"} }
    \cup { TxFunc("none", "goexit", Nil) }

AllDbScripts ==
    { DbScript(b, c, r) : b \in {Nil, "ErrBegin"}, c \in {Nil, "ErrCommit"},
                          r \in {Nil, "ErrRollback"} }

\* One caller, every input, under both settings of panicnil.
SingleInputs ==
    [ callers |-> {1},
      builds  |-> BOOLEAN,
      ctxs    |-> Contexts,
      fns     |-> AllTxFuncs,
      dbs     |-> AllDbScripts ]

\* Every caller, the inputs that make the three exits of txFunc happen.
ConcurrentInputs ==
    [ callers |-> Calls,
      builds  |-> {FALSE},
      ctxs    |-> {"Live"},
      fns     |-> { TxFunc("none", "return", Nil), TxFunc("none", "return", "F1"),
                    TxFunc("none", "panic", "V1") },
      dbs     |-> { DbScript(Nil, Nil, Nil), DbScript(Nil, "ErrCommit", "ErrRollback") } ]

\* Two callers given the same kind of inputs, one through each entry point.
PairInputs ==
    [ callers |-> {1, 2},
      builds  |-> BOOLEAN,
      ctxs    |-> {Background, "Live"},
      fns     |-> { TxFunc("none", "return", Nil), TxFunc("none", "return", "F1"),
                    TxFunc("Commit", "return", Nil), TxFunc("none", "panic", "V1"),
                    TxFunc("none", "panic", Nil), TxFunc("none", "goexit", Nil) },
      dbs     |-> { DbScript(Nil, Nil, Nil), DbScript(Nil, "ErrCommit", "ErrRollback"),
                    DbScript("ErrBegin", Nil, Nil) } ]

VARIABLES
    scenario,   \* which callers this run has and what they may pass
    panicnil,   \* GODEBUG panicnil=1 / go < 1.21: recover() of panic(nil) is nil
    pc,         \* where each call is
    entry,      \* the function the caller called: "Do" or "DoContext"
    ctx,        \* the context DoContext was given, and its state
    fn,         \* the txFunc the call was given
    db,         \* the driver's answers for this call
    err,        \* DoContext's named result err
    tx,         \* DoContext's local tx
    result,     \* what the caller observes
    hist,       \* the operations the helper of each call issued, with their results
    txLog,      \* per transaction handle: the operations invoked on it
    dbLog       \* the operations invoked on the database handle

vars == <<scenario, panicnil, pc, entry, ctx, fn, db, err, tx, result, hist, txLog, dbLog>>

NoResult == [kind |-> "none", val |-> Nil]
Returned(e) == [kind |-> "return", val |-> e]
Panicked(v) == [kind |-> "panic", val |-> v]
Exited == [kind |-> "exit", val |-> Nil]

\* The callers and inputs of the run.
Inputs ==
    CASE scenario = "single" -> SingleInputs
      [] scenario = "concurrent" -> ConcurrentInputs
      [] scenario = "pair" -> PairInputs

InitWith(sc) ==
    /\ scenario = sc
    /\ panicnil \in Inputs.builds
    /\ pc = [p \in Calls |-> IF p \in Inputs.callers THEN "idle" ELSE "off"]
    /\ entry = [p \in Calls |-> "none"]
    /\ ctx = [p \in Calls |-> "none"]
    /\ fn = [p \in Calls |-> NoFn]
    /\ db = [p \in Calls |-> NoScript]
    /\ err = [p \in Calls |-> Nil]
    /\ tx = [p \in Calls |-> NoTx]
    /\ result = [p \in Calls |-> NoResult]
    /\ hist = [p \in Calls |-> <<>>]
    /\ txLog = [h \in Handles |-> <<>>]
    /\ dbLog = <<>>

Init == InitWith("single")

InitConcurrent == InitWith("concurrent")

InitPair == InitWith("pair")

----------------------------------------------------------------------------
\* The environment: database/sql as the helper uses it.

\* The handles begun so far.
Begun == { dbLog[i].tx : i \in 1..Len(dbLog) } \ {NoTx}

\* Whether Commit or Rollback has been invoked on handle h.
TxDone(h) == txLog[h] # <<>>

\* db.BeginTx(ctx, nil): the context's error when the context is done, else
\* the driver's answer.
BeginResult(c, script) == IF CtxDone(c) THEN "context.Canceled" ELSE script.begin

\* tx.Commit(): sql.ErrTxDone on a handle that is finished, else the driver's answer.
CommitResult(h, script) == IF TxDone(h) THEN "ErrTxDone" ELSE script.commit

\* tx.Rollback(): sql.ErrTxDone on a handle that is finished, else the driver's answer.
RollbackResult(h, script) == IF TxDone(h) THEN "ErrTxDone" ELSE script.rollback

\* An operation invoked on a handle: which call invoked it, from the helper
\* or from inside txFunc, and what it returned.
TxOp(op, p, who, res) == [op |-> op, by |-> p, who |-> who, res |-> res]

----------------------------------------------------------------------------
\* src/transact.go

\* The call DoContext(c, db, f) made by goroutine p as function e.
Enter(p, e, c, f, d) ==
    /\ pc[p] = "idle"
    /\ pc' = [pc EXCEPT ![p] = "begin"]
    /\ entry' = [entry EXCEPT ![p] = e]
    /\ ctx' = [ctx EXCEPT ![p] = c]
    /\ fn' = [fn EXCEPT ![p] = f]
    /\ db' = [db EXCEPT ![p] = d]
    /\ UNCHANGED <<scenario, panicnil, err, tx, result, hist, txLog, dbLog>>

\* func DoContext(ctx, db, txFunc) called by the caller.
DoContext(p) ==
    \E c \in Inputs.ctxs, f \in Inputs.fns, d \in Inputs.dbs :
        Enter(p, "DoContext", c, f, d)

\* Mutant: Do passes a context that is already cancelled.
DoCanceled(p) ==
    \E f \in Inputs.fns, d \in Inputs.dbs :
        Enter(p, "Do", "Canceled", f, d)

\* func Do(db, txFunc): return DoContext(context.Background(), db, txFunc).
Do(p) ==
    \E f \in Inputs.fns, d \in Inputs.dbs :
        Enter(p, "Do", Background, f, d)

\* The caller cancels the context it passed.
Cancel(p) ==
    /\ pc[p] \in {"begin", "txFunc", "deferred"}
    /\ ctx[p] = "Live"
    /\ ctx' = [ctx EXCEPT ![p] = "Canceled"]
    /\ UNCHANGED <<scenario, panicnil, pc, entry, fn, db, err, tx, result, hist, txLog, dbLog>>

\* Mutant: the check of BeginTx's error is missing.
BeginFailedUnchecked(r) == FALSE

\* if err != nil { return } after BeginTx.
BeginFailed(r) == r # Nil

\* Mutant: the closure is called at once instead of deferred, so the switch on
\* err runs (and commits) before txFunc is called.
BeginTxFinalizesAtOnce(p) ==
    /\ pc[p] = "begin"
    /\ LET r == BeginResult(ctx[p], db[p])
           h == Len(dbLog) + 1
       IN  /\ err' = [err EXCEPT ![p] = r]
           /\ IF BeginFailed(r)
                THEN /\ dbLog' = Append(dbLog, [op |-> "BeginTx", by |-> p, tx |-> NoTx])
                     /\ hist' = [hist EXCEPT ![p] = Append(@, <<"BeginTx", r>>)]
                     /\ pc' = [pc EXCEPT ![p] = "returned"]
                     /\ result' = [result EXCEPT ![p] = Returned(r)]
                     /\ UNCHANGED <<tx, txLog>>
                ELSE /\ dbLog' = Append(dbLog, [op |-> "BeginTx", by |-> p, tx |-> h])
                     /\ hist' = [hist EXCEPT ![p] = @ \o << <<"BeginTx", r>>, <<"Commit", db[p].commit>> >>]
                     /\ txLog' = [txLog EXCEPT ![h] = Append(@, [op |-> "Commit", by |-> p, who |-> "helper", res |-> db[p].commit])]
                     /\ tx' = [tx EXCEPT ![p] = h]
                     /\ pc' = [pc EXCEPT ![p] = "txFunc"]
                     /\ UNCHANGED result
    /\ UNCHANGED <<scenario, panicnil, entry, ctx, fn, db>>

\* Mutant: the helper closes the database handle when BeginTx fails.
BeginTxClosesDb(p) ==
    /\ pc[p] = "begin"
    /\ LET r == BeginResult(ctx[p], db[p])
           h == Cardinality(Begun) + 1
       IN  /\ hist' = [hist EXCEPT ![p] = Append(@, <<"BeginTx", r>>)]
           /\ err' = [err EXCEPT ![p] = r]
           /\ IF BeginFailed(r)
                THEN /\ dbLog' = dbLog \o << [op |-> "BeginTx", by |-> p, tx |-> NoTx],
                                             [op |-> "Close", by |-> p, tx |-> NoTx] >>
                     /\ pc' = [pc EXCEPT ![p] = "returned"]
                     /\ result' = [result EXCEPT ![p] = Returned(r)]
                     /\ UNCHANGED tx
                ELSE /\ dbLog' = Append(dbLog, [op |-> "BeginTx", by |-> p, tx |-> h])
                     /\ tx' = [tx EXCEPT ![p] = h]
                     /\ pc' = [pc EXCEPT ![p] = "txFunc"]
                     /\ UNCHANGED result
    /\ UNCHANGED <<scenario, panicnil, entry, ctx, fn, db, txLog>>

\* tx, err := db.BeginTx(ctx, nil); if err != nil { return }; defer func() {...}()
BeginTx(p) ==
    /\ pc[p] = "begin"
    /\ LET r == BeginResult(ctx[p], db[p])
           h == Len(dbLog) + 1
       IN  /\ hist' = [hist EXCEPT ![p] = Append(@, <<"BeginTx", r>>)]
           /\ err' = [err EXCEPT ![p] = r]
           /\ IF BeginFailed(r)
                THEN /\ dbLog' = Append(dbLog, [op |-> "BeginTx", by |-> p, tx |-> NoTx])
                     /\ pc' = [pc EXCEPT ![p] = "returned"]
                     /\ result' = [result EXCEPT ![p] = Returned(r)]
                     /\ UNCHANGED tx
                ELSE /\ dbLog' = Append(dbLog, [op |-> "BeginTx", by |-> p, tx |-> h])
                     /\ tx' = [tx EXCEPT ![p] = h]
                     /\ pc' = [pc EXCEPT ![p] = "txFunc"]
                     /\ UNCHANGED result
    /\ UNCHANGED <<scenario, panicnil, entry, ctx, fn, db, txLog>>

\* Mutant: tx is a package-level variable, so it holds the handle begun last.
TxOfShared(p) == CHOOSE h \in Begun : \A g \in Begun : g <= h

\* The handle the deferred closure and txFunc use: the local tx of this call.
TxOf(p) == tx[p]

\* return txFunc(tx): txFunc runs on the handle and leaves by returning,
\* panicking or runtime.Goexit; a return sets the named result err.
CallTxFunc(p) ==
    /\ pc[p] = "txFunc"
    /\ LET h == TxOf(p)
           f == fn[p]
       IN  /\ txLog' = IF f.op = "Commit"
                         THEN [txLog EXCEPT ![h] = Append(@, TxOp("Commit", p, "txFunc", CommitResult(h, db[p])))]
                         ELSE IF f.op = "Rollback"
                         THEN [txLog EXCEPT ![h] = Append(@, TxOp("Rollback", p, "txFunc", RollbackResult(h, db[p])))]
                         ELSE txLog
           /\ err' = [err EXCEPT ![p] = IF f.kind = "return" THEN f.val ELSE @]
           /\ hist' = [hist EXCEPT ![p] = Append(@, <<"txFunc", f.kind>>)]
    /\ pc' = [pc EXCEPT ![p] = "deferred"]
    /\ UNCHANGED <<scenario, panicnil, entry, ctx, fn, db, tx, result, dbLog>>

\* The value a panic of txFunc carries as the runtime raises it: the value
\* given to panic, except that panic(nil) carries nil under panicnil=1 and a
\* *runtime.PanicNilError otherwise.
Raised(f) == IF f.val = Nil /\ ~panicnil THEN "PanicNilError" ELSE f.val

\* recover() in the deferred closure: the value txFunc's panic carries; nil
\* when txFunc returned or called runtime.Goexit.
Recover(p) == IF fn[p].kind = "panic" THEN Raised(fn[p]) ELSE Nil

\* Mutant: a failed Rollback is raised instead of the recovered value.
RepanicRollbackError(pErr, r) == IF r # Nil THEN r ELSE pErr

\* panic(pErr) after tx.Rollback() returned r: the recovered value is raised again.
Repanic(pErr, r) == pErr

\* Mutant: tx.Commit() as a statement, its result dropped.
AfterCommitDropped(e, r) == e

\* err = tx.Commit(): the named result becomes Commit's result r.
AfterCommit(e, r) == r

\* Mutant: err = tx.Rollback() when Rollback fails.
AfterRollbackSurfaced(e, r) == IF r # Nil THEN r ELSE e

\* tx.Rollback() as a statement: its result r is dropped, err stays e.
AfterRollback(e, r) == e

\* How the call ends once the deferred closure has returned normally with
\* named result e: the goroutine is gone after runtime.Goexit, else e is returned.
Leave(p, e) == IF fn[p].kind = "goexit" THEN Exited ELSE Returned(e)

\* Mutant: the recovered panic is raised again without a Rollback.
DeferredPanicNoRollback(p) ==
    /\ pc[p] = "deferred"
    /\ Recover(p) # Nil
    /\ result' = [result EXCEPT ![p] = Panicked(Recover(p))]
    /\ pc' = [pc EXCEPT ![p] = "panicked"]
    /\ UNCHANGED <<scenario, panicnil, entry, ctx, fn, db, err, tx, hist, txLog, dbLog>>

\* if pErr := recover(); pErr != nil { tx.Rollback(); panic(pErr) }
DeferredPanic(p) ==
    /\ pc[p] = "deferred"
    /\ Recover(p) # Nil
    /\ LET h == TxOf(p)
           r == RollbackResult(h, db[p])
       IN  /\ txLog' = [txLog EXCEPT ![h] = Append(@, TxOp("Rollback", p, "helper", r))]
           /\ hist' = [hist EXCEPT ![p] = Append(@, <<"Rollback", r>>)]
           /\ result' = [result EXCEPT ![p] = Panicked(Repanic(Recover(p), r))]
    /\ pc' = [pc EXCEPT ![p] = "panicked"]
    /\ UNCHANGED <<scenario, panicnil, entry, ctx, fn, db, err, tx, dbLog>>

\* Mutant: a failed Commit is tried a second time.
DeferredCommitRetry(p) ==
    /\ pc[p] = "deferred"
    /\ Recover(p) = Nil
    /\ err[p] = Nil
    /\ LET h == TxOf(p)
           r == CommitResult(h, db[p])
           ops == IF r = Nil THEN <<TxOp("Commit", p, "helper", r)>>
                  ELSE <<TxOp("Commit", p, "helper", r), TxOp("Commit", p, "helper", "ErrTxDone")>>
       IN  /\ txLog' = [txLog EXCEPT ![h] = @ \o ops]
           /\ hist' = [hist EXCEPT ![p] = @ \o [i \in 1..Len(ops) |-> <<ops[i].op, ops[i].res>>]]
           /\ err' = [err EXCEPT ![p] = r]
           /\ result' = [result EXCEPT ![p] = Leave(p, r)]
    /\ pc' = [pc EXCEPT ![p] = IF fn[p].kind = "goexit" THEN "exited" ELSE "returned"]
    /\ UNCHANGED <<scenario, panicnil, entry, ctx, fn, db, tx, dbLog>>

\* Mutant: a failed Commit is followed by a Rollback.
DeferredCommitThenRollback(p) ==
    /\ pc[p] = "deferred"
    /\ Recover(p) = Nil
    /\ err[p] = Nil
    /\ LET h == TxOf(p)
           r == CommitResult(h, db[p])
           ops == IF r = Nil THEN <<TxOp("Commit", p, "helper", r)>>
                  ELSE <<TxOp("Commit", p, "helper", r), TxOp("Rollback", p, "helper", "ErrTxDone")>>
       IN  /\ txLog' = [txLog EXCEPT ![h] = @ \o ops]
           /\ hist' = [hist EXCEPT ![p] = @ \o [i \in 1..Len(ops) |-> <<ops[i].op, ops[i].res>>]]
           /\ err' = [err EXCEPT ![p] = r]
           /\ result' = [result EXCEPT ![p] = Leave(p, r)]
    /\ pc' = [pc EXCEPT ![p] = IF fn[p].kind = "goexit" THEN "exited" ELSE "returned"]
    /\ UNCHANGED <<scenario, panicnil, entry, ctx, fn, db, tx, dbLog>>

\* Mutant: the closure looks at the context and, when it is done, rolls back
\* and returns the context's error instead of committing.
DeferredCommitUnlessCanceled(p) ==
    /\ pc[p] = "deferred"
    /\ Recover(p) = Nil
    /\ err[p] = Nil
    /\ LET h == TxOf(p)
           canceled == CtxDone(ctx[p])
           op == IF canceled THEN "Rollback" ELSE "Commit"
           r == IF canceled THEN RollbackResult(h, db[p]) ELSE CommitResult(h, db[p])
           e == IF canceled THEN "context.Canceled" ELSE r
       IN  /\ txLog' = [txLog EXCEPT ![h] = Append(@, TxOp(op, p, "helper", r))]
           /\ hist' = [hist EXCEPT ![p] = Append(@, <<op, r>>)]
           /\ err' = [err EXCEPT ![p] = e]
           /\ result' = [result EXCEPT ![p] = Leave(p, e)]
    /\ pc' = [pc EXCEPT ![p] = IF fn[p].kind = "goexit" THEN "exited" ELSE "returned"]
    /\ UNCHANGED <<scenario, panicnil, entry, ctx, fn, db, tx, dbLog>>

\* Mutant: the closure waits for a Commit that succeeds, and never ends when
\* Commit keeps failing.
DeferredCommitUntilSuccess(p) ==
    /\ pc[p] = "deferred"
    /\ Recover(p) = Nil
    /\ err[p] = Nil
    /\ LET h == TxOf(p)
           r == CommitResult(h, db[p])
       IN  IF r = Nil
             THEN /\ txLog' = [txLog EXCEPT ![h] = Append(@, TxOp("Commit", p, "helper", r))]
                  /\ hist' = [hist EXCEPT ![p] = Append(@, <<"Commit", r>>)]
                  /\ result' = [result EXCEPT ![p] = Leave(p, r)]
                  /\ pc' = [pc EXCEPT ![p] = IF fn[p].kind = "goexit" THEN "exited" ELSE "returned"]
                  /\ UNCHANGED <<scenario, panicnil, entry, ctx, fn, db, err, tx, dbLog>>
             ELSE UNCHANGED vars

\* Mutant: the closure leaves a handle alone that txFunc has finished itself.
DeferredCommitIfOpen(p) ==
    /\ pc[p] = "deferred"
    /\ Recover(p) = Nil
    /\ err[p] = Nil
    /\ LET h == TxOf(p)
           r == CommitResult(h, db[p])
       IN  IF TxDone(h)
             THEN /\ result' = [result EXCEPT ![p] = Leave(p, Nil)]
                  /\ UNCHANGED <<txLog, hist, err>>
             ELSE /\ txLog' = [txLog EXCEPT ![h] = Append(@, TxOp("Commit", p, "helper", r))]
                  /\ hist' = [hist EXCEPT ![p] = Append(@, <<"Commit", r>>)]
                  /\ err' = [err EXCEPT ![p] = r]
                  /\ result' = [result EXCEPT ![p] = Leave(p, r)]
    /\ pc' = [pc EXCEPT ![p] = IF fn[p].kind = "goexit" THEN "exited" ELSE "returned"]
    /\ UNCHANGED <<scenario, panicnil, entry, ctx, fn, db, tx, dbLog>>

\* switch err { case nil: err = tx.Commit() ... }
DeferredCommit(p) ==
    /\ pc[p] = "deferred"
    /\ Recover(p) = Nil
    /\ err[p] = Nil
    /\ LET h == TxOf(p)
           r == CommitResult(h, db[p])
       IN  /\ txLog' = [txLog EXCEPT ![h] = Append(@, TxOp("Commit", p, "helper", r))]
           /\ hist' = [hist EXCEPT ![p] = Append(@, <<"Commit", r>>)]
           /\ err' = [err EXCEPT ![p] = AfterCommit(@, r)]
           /\ result' = [result EXCEPT ![p] = Leave(p, AfterCommit(err[p], r))]
    /\ pc' = [pc EXCEPT ![p] = IF fn[p].kind = "goexit" THEN "exited" ELSE "returned"]
    /\ UNCHANGED <<scenario, panicnil, entry, ctx, fn, db, tx, dbLog>>

\* switch err { ... default: tx.Rollback() }
DeferredRollback(p) ==
    /\ pc[p] = "deferred"
    /\ Recover(p) = Nil
    /\ err[p] # Nil
    /\ LET h == TxOf(p)
           r == RollbackResult(h, db[p])
       IN  /\ txLog' = [txLog EXCEPT ![h] = Append(@, TxOp("Rollback", p, "helper", r))]
           /\ hist' = [hist EXCEPT ![p] = Append(@, <<"Rollback", r>>)]
           /\ err' = [err EXCEPT ![p] = AfterRollback(@, r)]
           /\ result' = [result EXCEPT ![p] = Returned(AfterRollback(err[p], r))]
    /\ pc' = [pc EXCEPT ![p] = "returned"]
    /\ UNCHANGED <<scenario, panicnil, entry, ctx, fn, db, tx, dbLog>>

Next ==
    \E p \in Calls :
        \/ DoContext(p)
        \/ Do(p)
        \/ Cancel(p)
        \/ BeginTx(p)
        \/ CallTxFunc(p)
        \/ DeferredPanic(p)
        \/ DeferredCommit(p)
        \/ DeferredRollback(p)

Spec == Init /\ [][Next]_vars

SpecConcurrent == InitConcurrent /\ [][Next]_vars

SpecPair == InitPair /\ [][Next]_vars

\* The steps of a call that has been made are taken: db.BeginTx, txFunc,
\* tx.Commit and tx.Rollback come back, and the runtime runs the deferred
\* closure when txFunc has left.
Fairness ==
    \A p \in Calls :
        /\ WF_vars(BeginTx(p))
        /\ WF_vars(CallTxFunc(p))
        /\ WF_vars(DeferredPanic(p))
        /\ WF_vars(DeferredCommit(p))
        /\ WF_vars(DeferredRollback(p))

SpecLive == Init /\ [][Next]_vars /\ Fairness

----------------------------------------------------------------------------
\* Vocabulary of the properties.

\* The call has ended: it returned, panicked, or its goroutine exited.
Finished(p) == pc[p] \in {"returned", "panicked", "exited"}

\* BeginTx succeeded in call p.
BeginOk(p) == tx[p] # NoTx

IsHelperOp(o) == o.who = "helper"

\* The operations the helper (not txFunc) invoked on handle h, in order.
HelperOpsOn(h) == SelectSeq(txLog[h], IsHelperOp)

\* The names of those operations.
HelperOpNames(h) == [i \in 1..Len(HelperOpsOn(h)) |-> HelperOpsOn(h)[i].op]

\* How often the helper of call p issued operation op.
Count(p, op) == Cardinality({ i \in 1..Len(hist[p]) : hist[p][i][1] = op })

\* The result of the Rollback the helper of call p issued is r.
RolledBackWith(p, r) == \E i \in 1..Len(hist[p]) : hist[p][i] = <<"Rollback", r>>

\* The result of the Commit the helper of call p issued is r.
CommittedWith(p, r) == \E i \in 1..Len(hist[p]) : hist[p][i] = <<"Commit", r>>

\* Errors only Commit and Rollback produce.
TxErrors == {"ErrCommit", "ErrRollback", "ErrTxDone"}

----------------------------------------------------------------------------
\* C1: whenever BeginTx succeeded, the helper invokes exactly one finalization
\* (Commit or Rollback, once) on the handle by the time the call has ended, on
\* every exit path, none before that, and nothing else on the handle.
C1_ExactlyOneFinalization ==
    \A p \in Calls :
        /\ BeginOk(p) /\ Finished(p) =>
              /\ Len(HelperOpsOn(tx[p])) = 1
              /\ HelperOpsOn(tx[p])[1].op \in {"Commit", "Rollback"}
              /\ Count(p, "Commit") + Count(p, "Rollback") = 1
        /\ BeginOk(p) /\ ~Finished(p) => HelperOpsOn(tx[p]) = <<>>
        /\ ~BeginOk(p) => Count(p, "Commit") + Count(p, "Rollback") = 0

\* A call whose txFunc panicked has ended after one Rollback of the helper.
C1_Witness ==
    \E p \in Calls :
        /\ pc[p] = "panicked" /\ BeginOk(p)
        /\ HelperOpNames(tx[p]) = <<"Rollback">>

\* C2: when txFunc returns a non-nil error F after a successful BeginTx, the
\* helper invokes Rollback, never Commit, and the call returns exactly F.
C2_ErrorRollsBack ==
    \A p \in Calls :
        fn[p].kind = "return" /\ fn[p].val # Nil /\ BeginOk(p) =>
            /\ Count(p, "Commit") = 0
            /\ \A i \in 1..Len(HelperOpsOn(tx[p])) : HelperOpsOn(tx[p])[i].op # "Commit"
            /\ Finished(p) =>
                  /\ hist[p][1] = <<"BeginTx", Nil>>
                  /\ HelperOpNames(tx[p]) = <<"Rollback">>
                  /\ result[p] = Returned(fn[p].val)

\* A call whose txFunc returned F2 has returned, its Rollback having failed.
C2_Witness ==
    \E p \in Calls :
        /\ pc[p] = "returned" /\ BeginOk(p)
        /\ fn[p].kind = "return" /\ fn[p].val = "F2"
        /\ RolledBackWith(p, "ErrRollback")

\* C3: when txFunc panics with any value V after a successful BeginTx, the
\* helper invokes Rollback, never Commit, the call does not return normally,
\* and the panic that reaches the caller carries the value txFunc's panic carried.
C3_PanicRollsBack ==
    \A p \in Calls :
        fn[p].kind = "panic" /\ BeginOk(p) =>
            /\ Count(p, "Commit") = 0
            /\ Finished(p) =>
                  /\ HelperOpNames(tx[p]) = <<"Rollback">>
                  /\ result[p] = Panicked(Raised(fn[p]))

\* C4: when txFunc returns nil after a successful BeginTx, the helper invokes
\* Commit, never Rollback, and the call returns nil when Commit succeeds and
\* Commit's error when it fails.
C4_SuccessCommits ==
    \A p \in Calls :
        fn[p].kind = "return" /\ fn[p].val = Nil /\ BeginOk(p) =>
            /\ Count(p, "Rollback") = 0
            /\ \A i \in 1..Len(HelperOpsOn(tx[p])) : HelperOpsOn(tx[p])[i].op # "Rollback"
            /\ Finished(p) =>
                  /\ hist[p][1] = <<"BeginTx", Nil>>
                  /\ HelperOpNames(tx[p]) = <<"Commit">>
                  /\ result[p] = Returned(HelperOpsOn(tx[p])[1].res)

\* A call whose txFunc returned nil has returned nil after a Commit.
C4_Witness ==
    \E p \in Calls :
        /\ pc[p] = "returned" /\ BeginOk(p)
        /\ fn[p].kind = "return" /\ fn[p].val = Nil
        /\ CommittedWith(p, Nil)
        /\ result[p] = Returned(Nil)

\* C5: when BeginTx fails, the call returns BeginTx's error at once: txFunc is
\* not invoked, no handle exists, and neither Commit nor Rollback is invoked.
C5_BeginFailure ==
    \A p \in Calls :
        Len(hist[p]) >= 1 /\ hist[p][1][2] # Nil =>
            /\ hist[p] = << <<"BeginTx", BeginResult(ctx[p], db[p])>> >>
            /\ pc[p] = "returned"
            /\ result[p] = Returned(BeginResult(ctx[p], db[p]))
            /\ tx[p] = NoTx
            /\ \A h \in Handles : \A i \in 1..Len(txLog[h]) : txLog[h][i].by # p

\* A call has returned the driver's begin error.
C5_Witness ==
    \E p \in Calls :
        /\ pc[p] = "returned"
        /\ hist[p] = << <<"BeginTx", "ErrBegin">> >>
        /\ result[p] = Returned("ErrBegin")

\* C6: the result of Rollback never reaches the caller: after a Rollback,
\* failed or not, a call whose txFunc returned F returns F and a call whose
\* txFunc panicked raises the value that panic carried.
C6_RollbackNeverSurfaces ==
    \A p \in Calls :
        Finished(p) /\ Count(p, "Rollback") > 0 =>
            /\ fn[p].kind \in {"return", "panic"}
            /\ fn[p].kind = "return" => result[p] = Returned(fn[p].val)
            /\ fn[p].kind = "panic" => result[p] = Panicked(Raised(fn[p]))
            /\ result[p].val \notin TxErrors

\* A call whose txFunc panicked has ended after a Rollback that failed.
C6_Witness ==
    \E p \in Calls :
        /\ pc[p] = "panicked"
        /\ RolledBackWith(p, "ErrRollback")
        /\ result[p] = Panicked("V1")

\* C7: when txFunc returns nil and Commit fails, the call returns Commit's
\* error and the failed Commit is the helper's last operation on the handle:
\* no Rollback follows and Commit is not invoked again.
C7_CommitFailureIsFinal ==
    \A p \in Calls :
        \A i \in 1..Len(hist[p]) :
            hist[p][i][1] = "Commit" /\ hist[p][i][2] # Nil /\ fn[p].kind = "return" =>
                /\ i = Len(hist[p])
                /\ Finished(p)
                /\ result[p] = Returned(hist[p][i][2])
                /\ HelperOpNames(tx[p]) = <<"Commit">>

\* A call has returned the error of its failed Commit.
C7_Witness ==
    \E p \in Calls :
        /\ pc[p] = "returned"
        /\ fn[p] = TxFunc("none", "return", Nil)
        /\ CommittedWith(p, "ErrCommit")
        /\ result[p] = Returned("ErrCommit")

\* The operations invoked on handle h, without the identity of the call.
Anonymous(h) ==
    IF h = NoTx THEN <<>>
    ELSE [i \in 1..Len(txLog[h]) |-> <<txLog[h][i].op, txLog[h][i].who, txLog[h][i].res>>]

\* Calls p and q were given the same txFunc and the same database behaviour,
\* p through Do and q through DoContext with context.Background().
SameCallThroughDo(p, q) ==
    /\ entry[p] = "Do" /\ entry[q] = "DoContext" /\ ctx[q] = Background
    /\ fn[p] = fn[q] /\ db[p] = db[q]

\* C8: Do(db, txFunc) behaves as DoContext(context.Background(), db, txFunc):
\* given the same txFunc and the same database behaviour, both issue the same
\* operations with the same results and end the same way.
C8_DoIsDoContextBackground ==
    \A p, q \in Calls :
        SameCallThroughDo(p, q) /\ Finished(p) /\ Finished(q) =>
            /\ hist[p] = hist[q]
            /\ result[p] = result[q]
            /\ Anonymous(tx[p]) = Anonymous(tx[q])

\* A Do call and a DoContext call with context.Background() have both rolled
\* back and returned txFunc's error.
C8_Witness ==
    \E p, q \in Calls :
        /\ SameCallThroughDo(p, q) /\ Finished(p) /\ Finished(q)
        /\ fn[p].val = "F1"
        /\ Count(p, "Rollback") = 1 /\ Count(q, "Rollback") = 1
        /\ result[p] = Returned("F1")

\* What call p must end with when it depends on its own txFunc and its own
\* handle's answers alone (txFunc itself leaving the handle alone).
OwnOutcome(p) ==
    IF fn[p].kind = "panic" THEN Panicked(Raised(fn[p]))
    ELSE IF fn[p].val # Nil THEN Returned(fn[p].val)
    ELSE Returned(db[p].commit)

OwnFinalization(p) ==
    IF fn[p].kind = "return" /\ fn[p].val = Nil
      THEN <<TxOp("Commit", p, "helper", db[p].commit)>>
      ELSE <<TxOp("Rollback", p, "helper", db[p].rollback)>>

\* C9: under every interleaving of concurrent calls on one database handle,
\* each call has its own transaction handle, only the call that began a handle
\* invokes anything on it, and each call's finalization and result are those
\* of its own txFunc and its own handle's answers.
C9_OwnHandleOnly ==
    /\ \A p, q \in Calls : p # q /\ BeginOk(p) => tx[p] # tx[q]
    /\ \A h \in Handles : \A i \in 1..Len(txLog[h]) : tx[txLog[h][i].by] = h
    /\ \A p \in Calls :
          BeginOk(p) /\ Finished(p) /\ fn[p].op = "none" /\ fn[p].kind # "goexit" =>
              /\ txLog[tx[p]] = OwnFinalization(p)
              /\ result[p] = OwnOutcome(p)

\* Two calls that began in one order and ended in the other, one committed
\* and one rolled back, both ended.
C9_Witness ==
    /\ tx[1] = 2 /\ tx[2] = 1
    /\ pc[1] = "returned" /\ pc[2] = "panicked"
    /\ txLog[2] = <<TxOp("Commit", 1, "helper", "ErrCommit")>>
    /\ txLog[1] = <<TxOp("Rollback", 2, "helper", Nil)>>

\* C10: nothing is retried: one call invokes BeginTx at most once, Commit at
\* most once and Rollback at most once, also when one of them fails.
C10_NoRetry ==
    \A p \in Calls :
        /\ Count(p, "BeginTx") <= 1
        /\ Count(p, "Commit") <= 1
        /\ Count(p, "Rollback") <= 1
        /\ Cardinality({ i \in 1..Len(dbLog) : dbLog[i].by = p }) <= 1
        /\ \A h \in Handles :
              Cardinality({ i \in 1..Len(txLog[h]) :
                              IsHelperOp(txLog[h][i]) /\ txLog[h][i].by = p }) <= 1

\* A call has ended after a Commit that failed.
C10_Witness ==
    \E p \in Calls :
        /\ Finished(p)
        /\ Count(p, "Commit") = 1
        /\ \E i \in 1..Len(hist[p]) : hist[p][i][1] = "Commit" /\ hist[p][i][2] # Nil

\* txFunc of call p left without returning: by a panic or by runtime.Goexit.
LeftWithoutReturning(p) == fn[p].kind \in {"panic", "goexit"}

\* C11: Commit is invoked only when txFunc has returned nil: every way txFunc
\* leaves without returning (a panic with any value, nil included, or
\* runtime.Goexit) leads to Rollback, never to Commit, and never to a normal
\* return of the call.
C11_CommitOnlyAfterNilReturn ==
    \A p \in Calls :
        /\ Count(p, "Commit") > 0 => fn[p].kind = "return" /\ fn[p].val = Nil
        /\ LeftWithoutReturning(p) /\ BeginOk(p) /\ Finished(p) =>
              /\ HelperOpNames(tx[p]) = <<"Rollback">>
              /\ result[p].kind # "return"

\* The steps of the helper of call p so far, by name.
Steps(p) == [i \in 1..Len(hist[p]) |-> hist[p][i][1]]

\* s is the beginning of t.
IsPrefix(s, t) == Len(s) <= Len(t) /\ \A i \in 1..Len(s) : s[i] = t[i]

\* C12: the operations of one call are ordered: BeginTx, then txFunc, invoked
\* once and on the handle that BeginTx returned, then one finalization, issued
\* only after txFunc has left; the finalization is decided once.
C12_StrictOrder ==
    \A p \in Calls :
        /\ \/ IsPrefix(Steps(p), <<"BeginTx", "txFunc", "Commit">>)
           \/ IsPrefix(Steps(p), <<"BeginTx", "txFunc", "Rollback">>)
        /\ BeginOk(p) =>
              /\ tx[p] \in Begun
              /\ \E i \in 1..Len(dbLog) : dbLog[i] = [op |-> "BeginTx", by |-> p, tx |-> tx[p]]
              /\ \A i \in 1..Len(txLog[tx[p]]) :
                    /\ txLog[tx[p]][i].by = p
                    /\ IsHelperOp(txLog[tx[p]][i]) => i = Len(txLog[tx[p]]) /\ Count(p, "txFunc") = 1
        /\ BeginOk(p) /\ Finished(p) => Len(Steps(p)) = 3
        /\ pc[p] = "deferred" => Steps(p) = <<"BeginTx", "txFunc">>
        /\ pc[p] = "txFunc" => Steps(p) = <<"BeginTx">> /\ txLog[tx[p]] = <<>>

\* A call whose txFunc rolled the handle back itself and returned an error has
\* ended: BeginTx, txFunc, then the helper's Rollback.
C12_Witness ==
    \E p \in Calls :
        /\ pc[p] = "returned"
        /\ hist[p] = << <<"BeginTx", Nil>>, <<"txFunc", "return">>, <<"Rollback", "ErrTxDone">> >>
        /\ Len(txLog[tx[p]]) = 2

\* Calls p and q both began a transaction and were given the same txFunc and
\* the same answers of their handles; their contexts may differ.
SameWorkAfterBegin(p, q) ==
    /\ BeginOk(p) /\ BeginOk(q)
    /\ fn[p] = fn[q] /\ db[p] = db[q]

\* C13: once BeginTx has succeeded the context plays no part: two calls given
\* the same txFunc and the same answers of their handles issue the same
\* operations and end the same way whatever their contexts are or become, and
\* a txFunc that returns nil leads to a Commit also when the context has been
\* cancelled meanwhile.
C13_ContextNotObserved ==
    /\ \A p, q \in Calls :
          SameWorkAfterBegin(p, q) /\ Finished(p) /\ Finished(q) =>
              /\ hist[p] = hist[q]
              /\ result[p] = result[q]
              /\ Anonymous(tx[p]) = Anonymous(tx[q])
    /\ \A p \in Calls :
          BeginOk(p) /\ Finished(p) /\ fn[p].kind = "return" /\ fn[p].val = Nil =>
              Count(p, "Commit") = 1 /\ Count(p, "Rollback") = 0

\* Of two calls whose txFunc returned nil, one under context.Background() and
\* one under a context cancelled after BeginTx, both have committed and
\* returned nil.
C13_Witness ==
    \E p, q \in Calls :
        /\ SameWorkAfterBegin(p, q) /\ Finished(p) /\ Finished(q)
        /\ ctx[p] = "Canceled" /\ ctx[q] = Background
        /\ fn[p] = TxFunc("none", "return", Nil)
        /\ CommittedWith(p, Nil) /\ CommittedWith(q, Nil)
        /\ result[p] = Returned(Nil)

\* C14: every call that was made ends, by a return or a panic unless txFunc
\* ended the goroutine, and once it has ended a transaction it began has
\* been committed or rolled back by the helper.
C14_EventuallyFinalized ==
    /\ \A p \in Calls : (pc[p] = "begin") ~> Finished(p)
    /\ [](\A p \in Calls :
            Finished(p) =>
                /\ fn[p].kind # "goexit" => pc[p] \in {"returned", "panicked"}
                /\ BeginOk(p) => Len(HelperOpsOn(tx[p])) = 1)

\* A call whose Commit failed has ended with its handle finalized.
C14_Witness ==
    \E p \in Calls :
        /\ Finished(p) /\ BeginOk(p)
        /\ HelperOpsOn(tx[p]) = <<TxOp("Commit", p, "helper", "ErrCommit")>>

\* C15: a call returns nil exactly when BeginTx succeeded, txFunc returned
\* nil and the helper's Commit returned nil; every other call returns a
\* non-nil error or panics; no Rollback of the helper precedes a nil result.
C15_NilIffCommitted ==
    \A p \in Calls :
        Finished(p) =>
            /\ result[p] = Returned(Nil) <=>
                  /\ BeginOk(p)
                  /\ fn[p].kind = "return" /\ fn[p].val = Nil
                  /\ CommittedWith(p, Nil)
            /\ result[p] # Returned(Nil) =>
                  \/ result[p].kind = "return" /\ result[p].val # Nil
                  \/ result[p].kind = "panic"
            /\ result[p] = Returned(Nil) => Count(p, "Rollback") = 0

\* C16: the helper finalizes whatever txFunc did to the handle: when txFunc
\* has committed or rolled back the handle itself and returns nil, the helper
\* still invokes Commit, the second finalization on the handle, and the call
\* returns what that Commit yields; when txFunc returns an error, the helper
\* still invokes Rollback and the call returns txFunc's error.
C16_FinalizesFinishedHandle ==
    \A p \in Calls :
        BeginOk(p) /\ Finished(p) /\ fn[p].op # "none" /\ fn[p].kind = "return" =>
            /\ Len(txLog[tx[p]]) = 2
            /\ txLog[tx[p]][1].who = "txFunc" /\ txLog[tx[p]][1].op = fn[p].op
            /\ txLog[tx[p]][2].who = "helper"
            /\ txLog[tx[p]][2].res = "ErrTxDone"
            /\ IF fn[p].val = Nil
                 THEN /\ txLog[tx[p]][2].op = "Commit"
                      /\ result[p] = Returned(txLog[tx[p]][2].res)
                 ELSE /\ txLog[tx[p]][2].op = "Rollback"
                      /\ result[p] = Returned(fn[p].val)

\* A call whose txFunc committed the handle and returned nil has returned the
\* error of the helper's own Commit.
C16_Witness ==
    \E p \in Calls :
        /\ pc[p] = "returned" /\ BeginOk(p)
        /\ fn[p] = TxFunc("Commit", "return", Nil)
        /\ txLog[tx[p]] = <<TxOp("Commit", p, "txFunc", Nil), TxOp("Commit", p, "helper", "ErrTxDone")>>
        /\ result[p] = Returned("ErrTxDone")

\* The operations call p invoked on the database handle.
DbOpsBy(p) == SelectSeq(dbLog, LAMBDA o : o.by = p)

\* What is left of call p in the handles it touched.
Footprint(p) == <<DbOpsBy(p), IF BeginOk(p) THEN txLog[tx[p]] ELSE <<>>, hist[p], tx[p], ctx[p]>>

\* C17: the only operation a call performs on the database handle is one
\* BeginTx; the helper never changes the context it was given; and once a
\* call has ended nothing more is invoked on its transaction handle, on the
\* database handle for it, or on its context, whatever other calls still do.
C17_DatabaseHandleUntouched ==
    /\ [](\A p \in Calls :
            /\ \A i \in 1..Len(dbLog) : dbLog[i].op = "BeginTx"
            /\ Len(DbOpsBy(p)) = IF pc[p] \in {"off", "idle", "begin"} THEN 0 ELSE 1)
    /\ [][\A p \in Calls : ctx[p] # "none" /\ ctx'[p] # ctx[p] => Cancel(p)]_vars
    /\ [][\A p \in Calls : Finished(p) => Footprint(p)' = Footprint(p)]_vars

\* One call has ended on a failed BeginTx, another has ended with its handle
\* finalized; the database handle has seen their two BeginTx and nothing else.
C17_Witness ==
    /\ \A p \in Calls : Finished(p)
    /\ \E p \in Calls : ~BeginOk(p)
    /\ \E p \in Calls : BeginOk(p) /\ Len(txLog[tx[p]]) = 1
    /\ Len(dbLog) = NumCalls
    /\ \A i \in 1..Len(dbLog) : dbLog[i].op = "BeginTx"

====
